---- MODULE Spec2Model ----
(***************************************************************************)
(* Model of src/datasets/pong.py: the Pong state-transition engine         *)
(* (PongState.simulate_timestep), the frame renderer (PongState.draw_frame)*)
(* and the trajectory driver (PongState.save_trajectory).                  *)
(*                                                                         *)
(* Numbers.  Positions are fixed-point: the integer p stands for the real  *)
(* p / One, so the interval [-1, 1] is -One .. One.  Angles are counted in *)
(* eighths of a turn: the integer a stands for a * pi / 4, so np.pi is Pi  *)
(* and 2*np.pi is TwoPi.  All arithmetic on these is exact, except         *)
(* cos/sin * ball_speed on a diagonal, which is rounded to the grid.       *)
(* A noise term  sigma * np.random.randn()  is sigma times a draw, the     *)
(* draw being any member of a small set; sigma = 0 switches the term off.  *)
(***************************************************************************)
EXTENDS Integers, Sequences, FiniteSets, TLC

VARIABLES
    ball_x, ball_y, ball_vel, ball_speed,      \* PongState fields (pong.py 61-64)
    pro_paddle_y, ant_paddle_y,                \* pong.py 65-66
    pro_score, ant_score,                      \* pong.py 67-68
    ball_noise, paddle_noise,                  \* pong.py 69-70
    timestep,                                  \* pong.py 71
    frame,                                     \* self.frame (pong.py 80); << >> before the first reset_frame
    err,                                       \* exception that ended the run, or "none"
    last,                                      \* the last method called on the state
    pc, timesteps, t, frames,                  \* save_trajectory: position, argument, loop variable, output array
    snaps,                                     \* history: the state each stored frame was drawn from
    fn, arg, ret                               \* a call of one of the module-level angle functions

vars == << ball_x, ball_y, ball_vel, ball_speed, pro_paddle_y, ant_paddle_y,
           pro_score, ant_score, ball_noise, paddle_noise, timestep, frame,
           err, last, pc, timesteps, t, frames, snaps, fn, arg, ret >>

simvars == << ball_x, ball_y, ball_vel, ball_speed, pro_paddle_y, ant_paddle_y,
              pro_score, ant_score, ball_noise, paddle_noise, timestep >>

trajvars == << pc, timesteps, t, frames, snaps >>

fnvars == << fn, arg, ret >>

----------------------------------------------------------------------------
(* Bounds of the model *)

\* resolution of the position grid: One grid steps make the real 1
One == 4

\* simulate_timestep is called at most MaxSteps times on one state
MaxSteps == 2

\* save_trajectory is called with timesteps in 0 .. MaxT
MaxT == 3

\* the angle functions are applied to angles within AngleTurns full turns of 0
AngleTurns == 3

----------------------------------------------------------------------------
(* Program constants *)

FRAME_SCALE == 32

\* np.pi, in eighths of a turn
Pi == 4

TwoPi == 2 * Pi

HalfPi == Pi \div 2

ball_color == << 0, 0, 255 >>

background_color == << 255, 255, 255 >>

pro_color == << 0, 255, 0 >>

ant_color == << 255, 0, 0 >>

\* the indices of one axis of the frame
Axis == 0 .. FRAME_SCALE - 1

----------------------------------------------------------------------------
(* Arithmetic helpers *)

Max(a, b) == IF a >= b THEN a ELSE b

Min(a, b) == IF a <= b THEN a ELSE b

\* int(n / d) for d > 0: Python's int() truncates toward zero
TruncDiv(n, d) == IF n >= 0 THEN n \div d ELSE -((-n) \div d)

\* n / d for d > 0, rounded to the nearest integer
RoundDiv(n, d) == (2 * n + d) \div (2 * d)

\* 1000 * np.cos(angle) for an angle in eighths of a turn
Cos1000(angle) ==
    CASE angle % TwoPi = 0 -> 1000
      [] angle % TwoPi = 1 -> 707
      [] angle % TwoPi = 2 -> 0
      [] angle % TwoPi = 3 -> -707
      [] angle % TwoPi = 4 -> -1000
      [] angle % TwoPi = 5 -> -707
      [] angle % TwoPi = 6 -> 0
      [] angle % TwoPi = 7 -> 707

\* 1000 * np.sin(angle)
Sin1000(angle) == Cos1000(angle - HalfPi)

----------------------------------------------------------------------------
(* Module-level functions of pong.py *)

\* get_abs_pos without its assert: an out-of-range coordinate is clamped
get_abs_pos_noassert(rel_pos, width) ==
    LET abs_pos == TruncDiv(2 * One * width
                            + (FRAME_SCALE - 2 * width) * (rel_pos + One),
                            2 * One)
    IN  [raised |-> FALSE,
         value  |-> Max(width, Min(abs_pos, FRAME_SCALE - width))]

\* get_abs_pos: the assert, the affine map, int(), the clamp.
\* raised = TRUE stands for the AssertionError.
get_abs_pos(rel_pos, width) ==
    IF ~(-One <= rel_pos /\ rel_pos <= One)
    THEN [raised |-> TRUE, value |-> 0]
    ELSE LET abs_pos == TruncDiv(2 * One * width
                                 + (FRAME_SCALE - 2 * width) * (rel_pos + One),
                                 2 * One)
         IN  [raised |-> FALSE,
              value  |-> Max(width, Min(abs_pos, FRAME_SCALE - width))]

mod_pos(pos) ==
    LET p1 == IF pos > One THEN 2 * One - pos ELSE pos
    IN  IF p1 < -One THEN -2 * One - p1 ELSE p1

RECURSIVE WhileNegativeAdd(_, _)
\* while angle < 0.0: angle += step
WhileNegativeAdd(angle, step) ==
    IF angle < 0 THEN WhileNegativeAdd(angle + step, step) ELSE angle

RECURSIVE WhileAboveSub(_, _)
\* while angle > 2*np.pi: angle -= step
WhileAboveSub(angle, step) ==
    IF angle > TwoPi THEN WhileAboveSub(angle - step, step) ELSE angle

\* mod_angle with the second loop stepping by np.pi instead of 2*np.pi
mod_angle_halfturn(angle) == WhileAboveSub(WhileNegativeAdd(angle, TwoPi), Pi)

mod_angle(angle) == WhileAboveSub(WhileNegativeAdd(angle, TwoPi), TwoPi)

flip_angle_x(angle) == mod_angle(Pi - angle)

flip_angle_y(angle) ==
    LET a1 == mod_angle(angle + HalfPi)
        a2 == mod_angle(Pi - a1)
    IN  mod_angle(a2 - HalfPi)

----------------------------------------------------------------------------
(* numpy slicing and slice assignment on the frame *)

\* a slice bound, as numpy normalises it on an axis of FRAME_SCALE entries
SliceBound(i) ==
    IF i < 0 THEN Max(0, i + FRAME_SCALE) ELSE Min(i, FRAME_SCALE)

\* the indices the slice lo:hi selects
Slice(lo, hi) ==
    { i \in Axis : SliceBound(lo) <= i /\ i < SliceBound(hi) }

\* fr[rows, cols, :] = color, on a frame held as fr[row][col]
Assign(fr, rows, cols, color) ==
    [ i \in Axis |->
        IF i \in rows
        THEN [ j \in Axis |-> IF j \in cols THEN color ELSE fr[i][j] ]
        ELSE fr[i] ]

----------------------------------------------------------------------------
(* PongState: the renderer *)

\* reset_frame that keeps an already allocated frame instead of clearing it
reset_frame_keep(fr) ==
    IF DOMAIN fr = {} THEN [ i \in Axis |-> [ j \in Axis |-> background_color ] ] ELSE fr

\* reset_frame: a fresh array of background pixels, whatever self.frame was
reset_frame(fr) == [ i \in Axis |-> [ j \in Axis |-> background_color ] ]

\* draw_ball on frame fr; err names the exception raised, if any
draw_ball(fr, bx, by) ==
    LET x == get_abs_pos(bx, 1)
        y == get_abs_pos(by, 1)
    IN  IF x.raised \/ y.raised
        THEN [frame |-> fr, err |-> "AssertionError"]
        ELSE LET f1 == Assign(fr, Slice(x.value - 1, x.value + 2), {y.value}, ball_color)
                 f2 == Assign(f1, {x.value}, Slice(y.value - 1, y.value + 2), ball_color)
             IN  [frame |-> f2, err |-> "none"]

\* draw_paddles on frame fr
draw_paddles(fr, pro, ant) ==
    LET pro_y == get_abs_pos(pro, 2)
    IN  IF pro_y.raised
        THEN [frame |-> fr, err |-> "AssertionError"]
        ELSE LET f1 == Assign(fr, Slice(0, 2),
                              Slice(pro_y.value - 2, pro_y.value + 3), pro_color)
                 ant_y == get_abs_pos(ant, 2)
             IN  IF ant_y.raised
                 THEN [frame |-> f1, err |-> "AssertionError"]
                 ELSE [frame |-> Assign(f1, Slice(FRAME_SCALE - 2, FRAME_SCALE),
                                        Slice(ant_y.value - 2, ant_y.value + 3),
                                        ant_color),
                       err |-> "none"]

\* draw_frame: reset_frame, draw_ball, draw_paddles; an exception ends it
DrawFrame(fr, bx, by, pro, ant) ==
    LET f0 == reset_frame(fr)
        b  == draw_ball(f0, bx, by)
    IN  IF b.err # "none" THEN b ELSE draw_paddles(b.frame, pro, ant)

----------------------------------------------------------------------------
(* PongState: the stepper *)

\* np.cos(self.ball_vel) * self.ball_speed
delta_x(vel, speed) == RoundDiv(Cos1000(vel) * speed, 1000)

\* np.sin(self.ball_vel) * self.ball_speed
delta_y(vel, speed) == RoundDiv(Sin1000(vel) * speed, 1000)

\* the ball position after line 86 / 87, before any reflection
moved_x(bx, vel, speed, sigma, dx) == bx + delta_x(vel, speed) + sigma * dx

moved_y(by, vel, speed, sigma, dy) == by + delta_y(vel, speed) + sigma * dy

\* update_ball_pos with the second test written as elif
update_ball_pos_elif(bx, by, vel, speed, sigma, dx, dy, da) ==
    LET mx == moved_x(bx, vel, speed, sigma, dx)
        my == moved_y(by, vel, speed, sigma, dy)
        a0 == mod_angle(vel + sigma * da)
        xout == ~(-One <= mx /\ mx <= One)
        yout == ~xout /\ ~(-One <= my /\ my <= One)
        a1 == IF xout THEN flip_angle_x(a0) ELSE a0
    IN  [ ball_x   |-> IF xout THEN mod_pos(mx) ELSE mx,
          ball_y   |-> IF yout THEN mod_pos(my) ELSE my,
          ball_vel |-> IF yout THEN flip_angle_y(a1) ELSE a1 ]

\* update_ball_pos; dx, dy, da are the three randn() draws in call order
update_ball_pos(bx, by, vel, speed, sigma, dx, dy, da) ==
    LET mx == moved_x(bx, vel, speed, sigma, dx)
        my == moved_y(by, vel, speed, sigma, dy)
        a0 == mod_angle(vel + sigma * da)
        xout == ~(-One <= mx /\ mx <= One)
        yout == ~(-One <= my /\ my <= One)
        a1 == IF xout THEN flip_angle_x(a0) ELSE a0
    IN  [ ball_x   |-> IF xout THEN mod_pos(mx) ELSE mx,
          ball_y   |-> IF yout THEN mod_pos(my) ELSE my,
          ball_vel |-> IF yout THEN flip_angle_y(a1) ELSE a1 ]

\* the randn() draw of one paddle: twice sigma * randn() is 2*sigma*d plus, when
\* 0.5 * (ball_y - paddle_y) falls between two grid points, the odd step that
\* puts the sum back on the grid
TwiceNoise(by, paddle, sigma, d) == 2 * sigma * d + ((by - paddle) % 2)

\* one paddle of update_paddle_pos: track the ball with damping 0.5, add the
\* noise, clamp to [-1, 1]
update_paddle(by, paddle, twice_noise) ==
    LET twice == 2 * paddle + (by - paddle) + twice_noise
    IN  Max(-One, Min(twice \div 2, One))

----------------------------------------------------------------------------
(* Inputs *)

\* a draw far enough out that one fold of mod_pos does not bring it back
Far == 3 * One

\* ball_speed 0.2 on the grid (at least one grid step)
DefaultSpeed == Max(RoundDiv(One, 5), 1)

Draw(dx, dy, da, dpro, dant) ==
    [x |-> dx, y |-> dy, a |-> da, pro |-> dpro, ant |-> dant]

\* the five randn() draws of one simulate_timestep, in call order:
\* ball x, ball y, ball angle, protagonist paddle, antagonist paddle
NoiseDraws ==
    { Draw(0, 0, 0, 0, 0),
      Draw(1, 1, 0, 0, 0),
      Draw(-1, 0, 1, 0, 0),
      Draw(0, -1, -1, 0, 0),
      Draw(Far, 0, 0, 0, 0),
      Draw(0, -Far, 0, 0, 0),
      Draw(One, One, 1, One, -One),
      Draw(0, 0, 0, -Far, Far) }

Args(bx, by, vel, pro, ant, speed, sigma) ==
    [ ball_x_0 |-> bx, ball_y_0 |-> by, ball_vel_0 |-> vel,
      pro_paddle_y_0 |-> pro, ant_paddle_y_0 |-> ant,
      ball_speed |-> speed, ball_noise |-> sigma ]

\* constructor arguments within the ranges the parameter comments give
DocumentedArgs ==
    { Args(bx, by, vel, 0, 0, DefaultSpeed, sigma) :
        bx \in {0, One}, by \in {0, One},
        vel \in {0, 1, HalfPi, Pi, TwoPi}, sigma \in {0, 1} }

\* constructor arguments outside them
UndocumentedArgs ==
    { Args(2 * One, 0, 0, 0, 0, DefaultSpeed, 0),
      Args(0, 0, -HalfPi, 0, 0, DefaultSpeed, 0),
      Args(0, 0, Pi, One, -2 * One, DefaultSpeed, 1),
      Args(0, 0, 0, 0, 0, Far, 0) }

ConstructorArgs == DocumentedArgs \cup UndocumentedArgs

\* the states save_trajectory is called on: the ball at the centre or in the
\* corner, and the states outside the documented ranges
TrajectoryArgs ==
    { a \in DocumentedArgs : a.ball_x_0 = a.ball_y_0 } \cup UndocumentedArgs

AngleInputs == (-AngleTurns * TwoPi) .. (AngleTurns * TwoPi)

\* an array slot, or self.frame, that nothing was written to yet
NoFrame == << >>

----------------------------------------------------------------------------
(* PongState.__init__ *)

Construct(args) ==
    /\ ball_x = args.ball_x_0
    /\ ball_y = args.ball_y_0
    /\ ball_vel = args.ball_vel_0
    /\ ball_speed = args.ball_speed
    /\ pro_paddle_y = args.pro_paddle_y_0
    /\ ant_paddle_y = args.ant_paddle_y_0
    /\ pro_score = 0
    /\ ant_score = 0
    /\ ball_noise = args.ball_noise
    /\ paddle_noise = 1          \* positive in every run of the model (default 0.1)
    /\ timestep = 0
    /\ frame = NoFrame
    /\ err = "none"
    /\ last = "__init__"

NoTrajectory ==
    /\ pc = "idle" /\ timesteps = 0 /\ t = 0 /\ frames = NoFrame /\ snaps = << >>

NoCall == fn = "none" /\ arg = 0 /\ ret = 0

----------------------------------------------------------------------------
(* The state's methods, called in any order *)

\* the field updates of simulate_timestep under the draws d
Advance(d) ==
    LET b == update_ball_pos(ball_x, ball_y, ball_vel, ball_speed, ball_noise,
                             d.x, d.y, d.a)
    IN  /\ ball_x' = b.ball_x
        /\ ball_y' = b.ball_y
        /\ ball_vel' = b.ball_vel
        /\ pro_paddle_y' = update_paddle(b.ball_y, pro_paddle_y,
                              TwiceNoise(b.ball_y, pro_paddle_y, paddle_noise, d.pro))
        /\ ant_paddle_y' = update_paddle(b.ball_y, ant_paddle_y,
                              TwiceNoise(b.ball_y, ant_paddle_y, paddle_noise, d.ant))
        /\ timestep' = timestep + 1
        /\ UNCHANGED << ball_speed, pro_score, ant_score, ball_noise, paddle_noise >>

simulate_timestep ==
    /\ err = "none"
    /\ timestep < MaxSteps
    /\ \E d \in NoiseDraws : Advance(d)
    /\ last' = "simulate_timestep"
    /\ UNCHANGED << frame, err >>
    /\ UNCHANGED trajvars
    /\ UNCHANGED fnvars

draw_frame ==
    /\ err = "none"
    /\ LET r == DrawFrame(frame, ball_x, ball_y, pro_paddle_y, ant_paddle_y)
       IN  frame' = r.frame /\ err' = r.err
    /\ last' = "draw_frame"
    /\ UNCHANGED simvars
    /\ UNCHANGED trajvars
    /\ UNCHANGED fnvars

Init ==
    /\ \E args \in ConstructorArgs : Construct(args)
    /\ NoTrajectory
    /\ NoCall

Next == simulate_timestep \/ draw_frame

Spec == Init /\ [][Next]_vars

----------------------------------------------------------------------------
(* save_trajectory(dest, timesteps): the driver loop *)

\* the state a frame is drawn from
Snapshot ==
    [ ball_x |-> ball_x, ball_y |-> ball_y, pro_paddle_y |-> pro_paddle_y,
      ant_paddle_y |-> ant_paddle_y, timestep |-> timestep ]

\* lines 129-131: np.empty, draw_frame, frames[0, ...] = self.frame
save_trajectory_first ==
    /\ pc = "start"
    /\ LET r == DrawFrame(frame, ball_x, ball_y, pro_paddle_y, ant_paddle_y)
           empty == [ i \in 0 .. timesteps - 1 |-> NoFrame ]
       IN  /\ frame' = r.frame
           /\ IF r.err # "none"
              THEN /\ err' = r.err
                   /\ pc' = "raised"
                   /\ frames' = empty
                   /\ UNCHANGED << t, snaps >>
              ELSE IF timesteps = 0
              THEN /\ err' = "IndexError"
                   /\ pc' = "raised"
                   /\ frames' = empty
                   /\ UNCHANGED << t, snaps >>
              ELSE /\ frames' = [ empty EXCEPT ![0] = r.frame ]
                   /\ snaps' = Append(snaps, Snapshot)
                   /\ t' = 1
                   /\ pc' = "loop"
                   /\ UNCHANGED err
    /\ last' = "draw_frame"
    /\ UNCHANGED simvars
    /\ UNCHANGED timesteps
    /\ UNCHANGED fnvars

\* the loop body with draw_frame before simulate_timestep
save_trajectory_iter_stale ==
    /\ pc = "loop"
    /\ t < timesteps
    /\ LET r == DrawFrame(frame, ball_x, ball_y, pro_paddle_y, ant_paddle_y)
       IN  /\ \E d \in NoiseDraws : Advance(d)
           /\ frame' = r.frame
           /\ IF r.err # "none"
              THEN /\ err' = r.err
                   /\ pc' = "raised"
                   /\ UNCHANGED << t, frames, snaps >>
              ELSE /\ frames' = [ frames EXCEPT ![t] = r.frame ]
                   /\ snaps' = Append(snaps, Snapshot')
                   /\ t' = t + 1
                   /\ UNCHANGED << err, pc >>
    /\ last' = "draw_frame"
    /\ UNCHANGED timesteps
    /\ UNCHANGED fnvars

\* lines 132-135: one iteration: simulate_timestep, draw_frame, frames[t, ...] = self.frame
save_trajectory_iter ==
    /\ pc = "loop"
    /\ t < timesteps
    /\ \E d \in NoiseDraws : Advance(d)
    /\ LET r == DrawFrame(frame, ball_x', ball_y', pro_paddle_y', ant_paddle_y')
       IN  /\ frame' = r.frame
           /\ IF r.err # "none"
              THEN /\ err' = r.err
                   /\ pc' = "raised"
                   /\ UNCHANGED << t, frames, snaps >>
              ELSE /\ frames' = [ frames EXCEPT ![t] = r.frame ]
                   /\ snaps' = Append(snaps, Snapshot')
                   /\ t' = t + 1
                   /\ UNCHANGED << err, pc >>
    /\ last' = "draw_frame"
    /\ UNCHANGED timesteps
    /\ UNCHANGED fnvars

\* lines 138-139: the loop is over, np.save(f, frames)
save_trajectory_save ==
    /\ pc = "loop"
    /\ t >= timesteps
    /\ pc' = "done"
    /\ UNCHANGED simvars
    /\ UNCHANGED << frame, err, last, timesteps, t, frames, snaps >>
    /\ UNCHANGED fnvars

InitTraj ==
    /\ \E args \in TrajectoryArgs : Construct(args)
    /\ pc = "start"
    /\ timesteps \in 0 .. MaxT
    /\ t = 0
    /\ frames = NoFrame
    /\ snaps = << >>
    /\ NoCall

NextTraj == save_trajectory_first \/ save_trajectory_iter \/ save_trajectory_save

SpecTraj == InitTraj /\ [][NextTraj]_vars

----------------------------------------------------------------------------
(* The angle functions, each applied to an input angle *)

CallReturns(name, value) ==
    /\ fn' = name
    /\ ret' = value
    /\ UNCHANGED arg
    /\ UNCHANGED simvars
    /\ UNCHANGED << frame, err, last >>
    /\ UNCHANGED trajvars

call_mod_angle == CallReturns("mod_angle", mod_angle(arg))

call_flip_angle_x == CallReturns("flip_angle_x", flip_angle_x(arg))

call_flip_angle_y == CallReturns("flip_angle_y", flip_angle_y(arg))

call_flip_angle_x_twice ==
    CallReturns("flip_angle_x twice", flip_angle_x(flip_angle_x(arg)))

call_flip_angle_y_twice ==
    CallReturns("flip_angle_y twice", flip_angle_y(flip_angle_y(arg)))

InitFn ==
    /\ Construct(Args(0, 0, 1, 0, 0, DefaultSpeed, 1))
    /\ NoTrajectory
    /\ fn = "none"
    /\ arg \in AngleInputs
    /\ ret = 0

NextFn ==
    \/ call_mod_angle
    \/ call_flip_angle_x
    \/ call_flip_angle_y
    \/ call_flip_angle_x_twice
    \/ call_flip_angle_y_twice

SpecFn == InitFn /\ [][NextFn]_vars

----------------------------------------------------------------------------
(* Vocabulary of the properties *)

InUnit(p) == -One <= p /\ p <= One

\* a step of the behaviour that is one simulate_timestep
Advanced == timestep' = timestep + 1

HasColor(fr, color) == \E i \in Axis : \E j \in Axis : fr[i][j] = color

Near(i, c, w) == c - w <= i /\ i <= c + w

\* the frame the renderer is specified to produce, pixel by pixel: the paddle
\* bands on rows 0..1 and FRAME_SCALE-2.., over the plus-shaped ball, over the
\* background
ExpectedFrame(bx, by, pro, ant) ==
    LET px    == get_abs_pos(bx, 1).value
        py    == get_abs_pos(by, 1).value
        pro_y == get_abs_pos(pro, 2).value
        ant_y == get_abs_pos(ant, 2).value
    IN  [ i \in Axis |-> [ j \in Axis |->
            IF i < 2 /\ Near(j, pro_y, 2) THEN pro_color
            ELSE IF i >= FRAME_SCALE - 2 /\ Near(j, ant_y, 2) THEN ant_color
            ELSE IF (j = py /\ Near(i, px, 1)) \/ (i = px /\ Near(j, py, 1))
                 THEN ball_color
            ELSE background_color ] ]

----------------------------------------------------------------------------
(* Properties of Spec: the state's methods called in any order *)

\* C1: every simulate_timestep that starts with ball_x, ball_y, pro_paddle_y,
\* ant_paddle_y in [-1, 1] and ball_vel in [0, 2*pi) ends with all four
\* positions in [-1, 1] and ball_vel in [0, 2*pi), whatever the noise draws.
C1_AdvanceKeepsRanges ==
    [][ ( /\ Advanced
          /\ InUnit(ball_x) /\ InUnit(ball_y)
          /\ InUnit(pro_paddle_y) /\ InUnit(ant_paddle_y)
          /\ 0 <= ball_vel /\ ball_vel < TwoPi )
        => ( /\ InUnit(ball_x') /\ InUnit(ball_y')
             /\ InUnit(pro_paddle_y') /\ InUnit(ant_paddle_y')
             /\ 0 <= ball_vel' /\ ball_vel' < TwoPi ) ]_vars

\* C4: with ball_noise = 0 a step leaves ball_vel unchanged when the moved ball
\* is inside [-1, 1] on both axes; a ball at angle 0 that crosses the right
\* wall ends at angle pi with ball_x = 2 - moved x; a ball at angle pi/2 that
\* crosses the top wall ends at angle 3*pi/2 with ball_y = 2 - moved y.
C4_NoiseFreeStraightLine ==
    [][ (Advanced /\ ball_noise = 0)
        => LET mx == moved_x(ball_x, ball_vel, ball_speed, 0, 0)
               my == moved_y(ball_y, ball_vel, ball_speed, 0, 0)
           IN  /\ (InUnit(mx) /\ InUnit(my)) => ball_vel' = ball_vel
               /\ (ball_vel = 0 /\ mx > One)
                    => (ball_vel' = Pi /\ ball_x' = 2 * One - mx)
               /\ (ball_vel = HalfPi /\ my > One)
                    => (ball_vel' = 3 * HalfPi /\ ball_y' = 2 * One - my) ]_vars

\* C5: whenever a frame has been drawn, the pixel indices of the ball stamp
\* (centre +- 1 on both axes) and of both paddle bands (centre +- 2) are all
\* indices 0 .. FRAME_SCALE-1 of the frame.
C5_StampsInsideFrame ==
    (last = "draw_frame" /\ err = "none")
    => LET px    == get_abs_pos(ball_x, 1).value
           py    == get_abs_pos(ball_y, 1).value
           pro_y == get_abs_pos(pro_paddle_y, 2).value
           ant_y == get_abs_pos(ant_paddle_y, 2).value
       IN  /\ (px - 1) .. (px + 1) \subseteq Axis
           /\ (py - 1) .. (py + 1) \subseteq Axis
           /\ (pro_y - 2) .. (pro_y + 2) \subseteq Axis
           /\ (ant_y - 2) .. (ant_y + 2) \subseteq Axis

\* C6: draw_frame changes no field of the simulation state, and the frame it
\* leaves is determined by that state alone (so two calls with no
\* simulate_timestep between them leave identical frames, whatever frame was
\* there before).
C6_DrawFrameIsPure ==
    [][ (last' = "draw_frame")
        => ( /\ UNCHANGED simvars
             /\ (err' = "none")
                  => frame' = ExpectedFrame(ball_x, ball_y,
                                            pro_paddle_y, ant_paddle_y) ) ]_vars

C6_Witness ==
    /\ last = "draw_frame"
    /\ err = "none"
    /\ timestep = 2
    /\ frame # ExpectedFrame(0, 0, 0, 0)

\* C7: a draw_frame on a state with a ball or paddle coordinate outside
\* [-1, 1] ends in the AssertionError of get_abs_pos, and the frame holds no
\* stamp of the object whose coordinate is out of range.
C7_OutOfRangeIsRefused ==
    (last = "draw_frame")
    => ( /\ (~InUnit(ball_x) \/ ~InUnit(ball_y))
              => (err = "AssertionError" /\ ~HasColor(frame, ball_color))
         /\ ~InUnit(pro_paddle_y)
              => (err = "AssertionError" /\ ~HasColor(frame, pro_color))
         /\ ~InUnit(ant_paddle_y)
              => (err = "AssertionError" /\ ~HasColor(frame, ant_color)) )

C7_Witness ==
    /\ last = "draw_frame"
    /\ timestep > 0
    /\ ~InUnit(ball_x)
    /\ err = "AssertionError"

\* C8: a state whose components are outside their ranges is refused by the
\* constructor: a freshly constructed state is in range or carries an error.
C8_ConstructorRefusesOutOfRange ==
    (last = "__init__")
    => ( \/ err # "none"
         \/ ( /\ InUnit(ball_x) /\ InUnit(ball_y)
              /\ InUnit(pro_paddle_y) /\ InUnit(ant_paddle_y)
              /\ InUnit(ball_speed)
              /\ 0 <= ball_vel /\ ball_vel <= TwoPi ) )

\* C10: in every simulate_timestep, for the noise drawn, the x fold and
\* flip_angle_x are applied exactly when the moved ball_x is outside [-1, 1],
\* the y fold and flip_angle_y exactly when the moved ball_y is, an axis in
\* range keeps its moved position, and with both outside the angle is
\* flip_angle_y(flip_angle_x(angle)).
C10_ReflectionsIndependent ==
    [][ Advanced
        => \E d \in NoiseDraws :
             LET mx == moved_x(ball_x, ball_vel, ball_speed, ball_noise, d.x)
                 my == moved_y(ball_y, ball_vel, ball_speed, ball_noise, d.y)
                 a0 == mod_angle(ball_vel + ball_noise * d.a)
             IN  /\ ball_x' = IF InUnit(mx) THEN mx ELSE mod_pos(mx)
                 /\ ball_y' = IF InUnit(my) THEN my ELSE mod_pos(my)
                 /\ ball_vel' =
                      CASE ~InUnit(mx) /\ ~InUnit(my) -> flip_angle_y(flip_angle_x(a0))
                        [] ~InUnit(mx) /\ InUnit(my)  -> flip_angle_x(a0)
                        [] InUnit(mx) /\ ~InUnit(my)  -> flip_angle_y(a0)
                        [] OTHER -> a0 ]_vars

\* a step from the corner: both axes were folded, the angle flipped twice
C10_Witness ==
    /\ timestep = 1
    /\ last = "simulate_timestep"
    /\ ball_noise = 0
    /\ ball_x = One - 1
    /\ ball_y = One - 1
    /\ ball_vel = Pi + 1

----------------------------------------------------------------------------
(* Properties of SpecFn: the angle functions *)

\* C2: mod_angle returns a value in [0, 2*pi) for every input, 2*pi included.
C2_ModAngleHalfOpen ==
    (fn = "mod_angle") => (0 <= ret /\ ret < TwoPi)

\* C3: flip_angle_x applied twice, and flip_angle_y applied twice, return an
\* angle that differs from the input by a whole number of turns.
C3_FlipsAreInvolutions ==
    (fn \in {"flip_angle_x twice", "flip_angle_y twice"})
    => (ret - arg) % TwoPi = 0

C3_Witness ==
    /\ fn = "flip_angle_y twice"
    /\ arg = -(TwoPi + 1)
    /\ ret = TwoPi - 1

----------------------------------------------------------------------------
(* Properties of SpecTraj: save_trajectory *)

\* every slot of the output array holds a frame
AllStored == \A i \in DOMAIN frames : frames[i] # NoFrame

\* the slots written so far hold, in order, the renderings of the states they
\* were stored from
RenderedInOrder ==
    \A i \in 1 .. Len(snaps) :
        frames[i - 1] = ExpectedFrame(snaps[i].ball_x, snaps[i].ball_y,
                                      snaps[i].pro_paddle_y, snaps[i].ant_paddle_y)

====
